---- MODULE Spec2Model ----
(***************************************************************************)
(* Decoder of the PFCP "Outer Header Creation" information element         *)
(* (package pfcp, outer_header.go): ParseOuterHeaderCreation and the       *)
(* presence accessors HasTEID / HasIPv4 of OuterHeaderCreationFields.      *)
(*                                                                         *)
(* Bytes are integers 0..255, a []byte is a sequence (Go index i is TLA+   *)
(* index i+1), a net.IP is a slice header that either views the caller's   *)
(* buffer or owns its bytes.                                               *)
(***************************************************************************)
EXTENDS Integers, Sequences, FiniteSets, TLC

VARIABLES
    payload,    \* the caller's buffer (backing array of the []byte argument)
    pc,         \* "idle": before the call; "returned": ParseOuterHeaderCreation has returned
    res,        \* the returned *OuterHeaderCreationFields (res.nil: a nil pointer)
    err,        \* the returned error (err.nil: no error)
    offset,     \* the decoder's cursor when it returned
    reads,      \* the Go indices of payload the decoder read
    got,        \* the sub-fields the decoder decoded, in the call that returned
    arg,        \* the bytes of payload at the time of the call
    prev,       \* outcome of the call made before the buffer was re-sliced shorter
    answers,    \* per sub-field, the values its presence accessor has returned
    writes      \* number of bytes the caller overwrote after the call returned

vars == <<payload, pc, res, err, offset, reads, got, arg, prev, answers, writes>>

----------------------------------------------------------------------------
\* Bounds of the model

\* longest payload handed to the decoder (the longest layout needs 34 bytes)
MaxLen == 36

\* bytes the caller overwrites after a decode
MaxWrites == 1

----------------------------------------------------------------------------
\* Fixed-width integer arithmetic of Go

RECURSIVE BitAnd(_, _)
BitAnd(x, y) ==
    IF x = 0 \/ y = 0 THEN 0
    ELSE (x % 2) * (y % 2) + 2 * BitAnd(x \div 2, y \div 2)

RECURSIVE BitOr(_, _)
BitOr(x, y) ==
    IF x = 0 THEN y
    ELSE IF y = 0 THEN x
    ELSE (IF x % 2 = 1 \/ y % 2 = 1 THEN 1 ELSE 0) + 2 * BitOr(x \div 2, y \div 2)

\* x << n in a uint16 (the bits shifted out are lost)
Shl16(x, n) == IF n >= 16 THEN 0 ELSE (x % 2^(16 - n)) * 2^n

\* x >> n
Shr(x, n) == x \div 2^n

\* A uint32 is kept as its two 16-bit halves: its value is hi * 2^16 + lo.
\* uint32(b) of a byte b
U32(b) == [hi |-> 0, lo |-> b]

\* x << n in a uint32
Shl32(x, n) ==
    IF n >= 16 THEN [hi |-> Shl16(x.lo, n - 16), lo |-> 0]
    ELSE [hi |-> BitOr(Shl16(x.hi, n), Shr(x.lo, 16 - n)), lo |-> Shl16(x.lo, n)]

\* x | y in a uint32
Or32(x, y) == [hi |-> BitOr(x.hi, y.hi), lo |-> BitOr(x.lo, y.lo)]

\* payload[i], Go's 0-based index
At(p, i) == p[i + 1]

----------------------------------------------------------------------------
\* net.IP values

NilIP == [kind |-> "nil", base |-> 0, len |-> 0, bytes |-> <<>>]

\* payload[lo:hi]: a slice header over the caller's backing array
Slice(lo, hi) == [kind |-> "view", base |-> lo, len |-> hi - lo, bytes |-> <<>>]

\* a freshly allocated slice holding bs
Owned(bs) == [kind |-> "owned", base |-> 0, len |-> Len(bs), bytes |-> bs]

\* the bytes an IP holds, given the current contents of the caller's buffer
IPBytes(buf, ip) ==
    IF ip.kind = "view" THEN
        [i \in 1..ip.len |-> IF ip.base + i <= Len(buf) THEN buf[ip.base + i] ELSE 0]
    ELSE ip.bytes

\* ip[lo:hi] of an IP
SubIP(ip, lo, hi) ==
    IF ip.kind = "view" THEN Slice(ip.base + lo, ip.base + hi)
    ELSE Owned(SubSeq(ip.bytes, lo + 1, hi))

v4InV6Prefix == <<0, 0, 0, 0, 0, 0, 0, 0, 0, 0, 255, 255>>

\* net.IP.To4: a 4-byte IP is returned as it is (the same slice, no copy)
To4(buf, ip) ==
    IF ip.len = 4 THEN ip
    ELSE IF /\ ip.len = 16
            /\ SubSeq(IPBytes(buf, ip), 1, 12) = v4InV6Prefix
         THEN SubIP(ip, 12, 16)
    ELSE NilIP

\* net.IP.To16: a 16-byte IP is returned as it is (the same slice, no copy)
To16(buf, ip) ==
    IF ip.len = 4 THEN Owned(v4InV6Prefix \o IPBytes(buf, ip))
    ELSE IF ip.len = 16 THEN ip
    ELSE NilIP

----------------------------------------------------------------------------
\* OuterHeaderCreationFields and errors

\* &OuterHeaderCreationFields{}: every field at its zero value
NewFields ==
    [nil |-> FALSE, OuterHeaderCreationDescription |-> 0, TEID |-> U32(0),
     IPv4Address |-> NilIP, IPv6Address |-> NilIP, PortNumber |-> 0,
     CTag |-> U32(0), STag |-> U32(0)]

\* a nil *OuterHeaderCreationFields
NilFields == [NewFields EXCEPT !.nil = TRUE]

\* a nil error
NoErr == [nil |-> TRUE, msg |-> <<>>, at |-> 0]

\* variant of ErrTooShort: the message reworded
ErrTooShort_Reworded ==
    [nil |-> FALSE,
     msg |-> <<"OuterHeaderCreation", "payload", "truncated", ":",
               "need", "at", "least", "2", "bytes">>,
     at |-> 0]

\* errors.New("OuterHeaderCreation payload too short: need at least 2 bytes")
ErrTooShort ==
    [nil |-> FALSE,
     msg |-> <<"OuterHeaderCreation", "payload", "too", "short", ":",
               "need", "at", "least", "2", "bytes">>,
     at |-> 0]

\* fmt.Errorf("OuterHeaderCreation: insufficient bytes for <field> at offset %d", offset)
ErrInsufficient(field, off) ==
    [nil |-> FALSE,
     msg |-> <<"OuterHeaderCreation", ":", "insufficient", "bytes", "for",
               field, "at", "offset", "%d">>,
     at |-> off]

----------------------------------------------------------------------------
\* ParseOuterHeaderCreation, block by block.  A decoder state s holds the
\* locals f and offset, what was read so far, and, once a return statement
\* ran (s.done), the returned pair.

\* variant of Fail: return f, <e> (the partially filled structure escapes)
Fail_Partial(s, e) == [s EXCEPT !.done = TRUE, !.res = s.f, !.err = e]

\* return nil, <e>
Fail(s, e) == [s EXCEPT !.done = TRUE, !.res = NilFields, !.err = e]

\* variant of ReadTEID: the four bytes combined in little-endian order
ReadTEID_LittleEndian(p, s) ==
    LET oct5 == At(p, 0)
        o == s.offset
    IN  IF s.done THEN s
        ELSE IF BitAnd(oct5, 1) # 0 \/ BitAnd(oct5, 2) # 0 THEN
            IF Len(p) < o + 4 THEN Fail(s, ErrInsufficient("TEID", o))
            ELSE [s EXCEPT
                    !.f.TEID = Or32(Or32(Or32(Shl32(U32(At(p, o + 3)), 24),
                                              Shl32(U32(At(p, o + 2)), 16)),
                                         Shl32(U32(At(p, o + 1)), 8)),
                                    U32(At(p, o))),
                    !.offset = o + 4,
                    !.reads = @ \cup (o..(o + 3)),
                    !.got = @ \cup {"TEID"}]
        ELSE s

\* variant of ReadTEID: the bounds check is l <= offset+4
ReadTEID_OffByOne(p, s) ==
    LET oct5 == At(p, 0)
        o == s.offset
    IN  IF s.done THEN s
        ELSE IF BitAnd(oct5, 1) # 0 \/ BitAnd(oct5, 2) # 0 THEN
            IF Len(p) <= o + 4 THEN Fail(s, ErrInsufficient("TEID", o))
            ELSE [s EXCEPT
                    !.f.TEID = Or32(Or32(Or32(Shl32(U32(At(p, o)), 24),
                                              Shl32(U32(At(p, o + 1)), 16)),
                                         Shl32(U32(At(p, o + 2)), 8)),
                                    U32(At(p, o + 3))),
                    !.offset = o + 4,
                    !.reads = @ \cup (o..(o + 3)),
                    !.got = @ \cup {"TEID"}]
        ELSE s

\* TEID: present if bit 1 (0x01) or bit 2 (0x02) is set
ReadTEID(p, s) ==
    LET oct5 == At(p, 0)
        o == s.offset
    IN  IF s.done THEN s
        ELSE IF BitAnd(oct5, 1) # 0 \/ BitAnd(oct5, 2) # 0 THEN
            IF Len(p) < o + 4 THEN Fail(s, ErrInsufficient("TEID", o))
            ELSE [s EXCEPT
                    !.f.TEID = Or32(Or32(Or32(Shl32(U32(At(p, o)), 24),
                                              Shl32(U32(At(p, o + 1)), 16)),
                                         Shl32(U32(At(p, o + 2)), 8)),
                                    U32(At(p, o + 3))),
                    !.offset = o + 4,
                    !.reads = @ \cup (o..(o + 3)),
                    !.got = @ \cup {"TEID"}]
        ELSE s

\* variant of ReadIPv4: one address read per trigger bit that is set
ReadIPv4_PerTrigger(p, s) ==
    LET oct5 == At(p, 0)
        o == s.offset
        n == Cardinality({m \in {1, 4, 16} : BitAnd(oct5, m) # 0})
    IN  IF s.done THEN s
        ELSE IF n > 0 THEN
            IF Len(p) < o + 4 * n THEN Fail(s, ErrInsufficient("IPv4", o))
            ELSE [s EXCEPT
                    !.f.IPv4Address = To4(p, Slice(o + 4 * (n - 1), o + 4 * n)),
                    !.offset = o + 4 * n,
                    !.reads = @ \cup (o..(o + 4 * n - 1)),
                    !.got = @ \cup {"IPv4"}]
        ELSE s

\* IPv4: present if bit 1 (0x01), bit 3 (0x04), or bit 5 (0x10) is set
ReadIPv4(p, s) ==
    LET oct5 == At(p, 0)
        o == s.offset
    IN  IF s.done THEN s
        ELSE IF BitAnd(oct5, 1) # 0 \/ BitAnd(oct5, 4) # 0 \/ BitAnd(oct5, 16) # 0 THEN
            IF Len(p) < o + 4 THEN Fail(s, ErrInsufficient("IPv4", o))
            ELSE [s EXCEPT
                    !.f.IPv4Address = To4(p, Slice(o, o + 4)),
                    !.offset = o + 4,
                    !.reads = @ \cup (o..(o + 3)),
                    !.got = @ \cup {"IPv4"}]
        ELSE s

\* variant of ReadIPv6: the error message names IPv4
ReadIPv6_NamesIPv4(p, s) ==
    LET oct5 == At(p, 0)
        o == s.offset
    IN  IF s.done THEN s
        ELSE IF BitAnd(oct5, 2) # 0 \/ BitAnd(oct5, 8) # 0 \/ BitAnd(oct5, 32) # 0 THEN
            IF Len(p) < o + 16 THEN Fail(s, ErrInsufficient("IPv4", o))
            ELSE [s EXCEPT
                    !.f.IPv6Address = To16(p, Slice(o, o + 16)),
                    !.offset = o + 16,
                    !.reads = @ \cup (o..(o + 15)),
                    !.got = @ \cup {"IPv6"}]
        ELSE s

\* IPv6: present if bit 2 (0x02), bit 4 (0x08), or bit 6 (0x20) is set
ReadIPv6(p, s) ==
    LET oct5 == At(p, 0)
        o == s.offset
    IN  IF s.done THEN s
        ELSE IF BitAnd(oct5, 2) # 0 \/ BitAnd(oct5, 8) # 0 \/ BitAnd(oct5, 32) # 0 THEN
            IF Len(p) < o + 16 THEN Fail(s, ErrInsufficient("IPv6", o))
            ELSE [s EXCEPT
                    !.f.IPv6Address = To16(p, Slice(o, o + 16)),
                    !.offset = o + 16,
                    !.reads = @ \cup (o..(o + 15)),
                    !.got = @ \cup {"IPv6"}]
        ELSE s

\* Port Number: present if bit 3 (0x04) or bit 4 (0x08) is set
ReadPort(p, s) ==
    LET oct5 == At(p, 0)
        o == s.offset
    IN  IF s.done THEN s
        ELSE IF BitAnd(oct5, 4) # 0 \/ BitAnd(oct5, 8) # 0 THEN
            IF Len(p) < o + 2 THEN Fail(s, ErrInsufficient("Port", o))
            ELSE [s EXCEPT
                    !.f.PortNumber = BitOr(Shl16(At(p, o), 8), At(p, o + 1)),
                    !.offset = o + 2,
                    !.reads = @ \cup (o..(o + 1)),
                    !.got = @ \cup {"Port"}]
        ELSE s

\* variant of ReadCTag: the tag read as a 4-byte uint32
ReadCTag_Uint32(p, s) ==
    LET oct5 == At(p, 0)
        o == s.offset
    IN  IF s.done THEN s
        ELSE IF BitAnd(oct5, 64) # 0 THEN
            IF Len(p) < o + 4 THEN Fail(s, ErrInsufficient("C-TAG", o))
            ELSE [s EXCEPT
                    !.f.CTag = Or32(Or32(Or32(Shl32(U32(At(p, o)), 24),
                                              Shl32(U32(At(p, o + 1)), 16)),
                                         Shl32(U32(At(p, o + 2)), 8)),
                                    U32(At(p, o + 3))),
                    !.offset = o + 4,
                    !.reads = @ \cup (o..(o + 3)),
                    !.got = @ \cup {"C-TAG"}]
        ELSE s

\* C-TAG: present if bit 7 (0x40) is set; 3 octets
ReadCTag(p, s) ==
    LET oct5 == At(p, 0)
        o == s.offset
    IN  IF s.done THEN s
        ELSE IF BitAnd(oct5, 64) # 0 THEN
            IF Len(p) < o + 3 THEN Fail(s, ErrInsufficient("C-TAG", o))
            ELSE [s EXCEPT
                    !.f.CTag = Or32(Or32(Shl32(U32(At(p, o)), 16),
                                         Shl32(U32(At(p, o + 1)), 8)),
                                    U32(At(p, o + 2))),
                    !.offset = o + 3,
                    !.reads = @ \cup (o..(o + 2)),
                    !.got = @ \cup {"C-TAG"}]
        ELSE s

\* S-TAG: present if bit 8 (0x80) is set; 3 octets
ReadSTag(p, s) ==
    LET oct5 == At(p, 0)
        o == s.offset
    IN  IF s.done THEN s
        ELSE IF BitAnd(oct5, 128) # 0 THEN
            IF Len(p) < o + 3 THEN Fail(s, ErrInsufficient("S-TAG", o))
            ELSE [s EXCEPT
                    !.f.STag = Or32(Or32(Shl32(U32(At(p, o)), 16),
                                         Shl32(U32(At(p, o + 1)), 8)),
                                    U32(At(p, o + 2))),
                    !.offset = o + 3,
                    !.reads = @ \cup (o..(o + 2)),
                    !.got = @ \cup {"S-TAG"}]
        ELSE s

\* return f, nil
ReturnFields(s) ==
    IF s.done THEN s
    ELSE [s EXCEPT !.done = TRUE, !.res = s.f, !.err = NoErr]

\* the length check, then f.OuterHeaderCreationDescription and offset := 2
ReadDescription(p) ==
    IF Len(p) < 2 THEN
        [f |-> NilFields, offset |-> 0, reads |-> {}, got |-> {},
         done |-> TRUE, res |-> NilFields, err |-> ErrTooShort]
    ELSE
        [f |-> [NewFields EXCEPT !.OuterHeaderCreationDescription =
                                    BitOr(Shl16(At(p, 0), 8), At(p, 1))],
         offset |-> 2, reads |-> {0, 1}, got |-> {},
         done |-> FALSE, res |-> NilFields, err |-> NoErr]

ParseOuterHeaderCreation(p) ==
    ReturnFields(ReadSTag(p, ReadCTag(p, ReadPort(p,
        ReadIPv6(p, ReadIPv4(p, ReadTEID(p, ReadDescription(p))))))))

----------------------------------------------------------------------------
\* Presence accessors of the result

\* variant of HasTEID: the flag octet taken from the low byte (no shift)
HasTEID_LowByte(f) ==
    LET oct5 == BitAnd(f.OuterHeaderCreationDescription, 255)
    IN  BitAnd(oct5, 1) # 0 \/ BitAnd(oct5, 2) # 0

\* HasTEID checks if OuterHeaderCreation has TEID field
HasTEID(f) ==
    LET oct5 == Shr(BitAnd(f.OuterHeaderCreationDescription, 65280), 8) % 256
    IN  BitAnd(oct5, 1) # 0 \/ BitAnd(oct5, 2) # 0

\* HasIPv4 checks if OuterHeaderCreation has IPv4 field
HasIPv4(f) ==
    LET oct5 == Shr(BitAnd(f.OuterHeaderCreationDescription, 65280), 8) % 256
    IN  BitAnd(oct5, 1) # 0 \/ BitAnd(oct5, 4) # 0 \/ BitAnd(oct5, 16) # 0

----------------------------------------------------------------------------
\* Inputs

\* the six optional sub-fields
Fields == {"TEID", "IPv4", "IPv6", "Port", "C-TAG", "S-TAG"}

\* low byte of the description word
LowBytes == {0, 90, 165}

\* bytes after the description word: all different, high bits set and clear
Fill(i) == (i * 37 + 91) % 256

\* a payload of n bytes whose flag octet is flag
MkPayload(flag, low, n) ==
    [i \in 1..n |-> IF i = 1 THEN flag ELSE IF i = 2 THEN low ELSE Fill(i)]

Payloads == {MkPayload(flag, low, n) : flag \in 0..255, low \in LowBytes, n \in 0..MaxLen}

\* flag octets of the memory-independence runs: one per single bit, and combinations
MemFlags == {1, 2, 4, 8, 16, 32, 65, 193, 255}

\* values the caller writes into its buffer
WriteValues == {0, 255}

----------------------------------------------------------------------------
\* The state machine: a caller that decodes its buffer

InitWith(flags) ==
    /\ payload \in {p \in Payloads : Len(p) = 0 \/ p[1] \in flags}
    /\ pc = "idle"
    /\ res = NilFields
    /\ err = NoErr
    /\ offset = 0
    /\ reads = {}
    /\ got = {}
    /\ arg = <<>>
    /\ prev = "none"
    /\ answers = [x \in Fields |-> {}]
    /\ writes = 0

Init == InitWith(0..255)

InitMem == InitWith(MemFlags)

\* f, err := ParseOuterHeaderCreation(payload)
Call ==
    /\ pc = "idle"
    /\ LET r == ParseOuterHeaderCreation(payload)
       IN  /\ res' = r.res
           /\ err' = r.err
           /\ offset' = r.offset
           /\ reads' = r.reads
           /\ got' = r.got
    /\ arg' = payload
    /\ pc' = "returned"
    /\ UNCHANGED <<payload, prev, answers, writes>>

\* f.HasTEID() on a decoded result
CallHasTEID ==
    /\ pc = "returned"
    /\ ~res.nil
    /\ answers["TEID"] = {}
    /\ answers' = [answers EXCEPT !["TEID"] = {HasTEID(res)}]
    /\ UNCHANGED <<payload, pc, res, err, offset, reads, got, arg, prev, writes>>

\* f.HasIPv4() on a decoded result
CallHasIPv4 ==
    /\ pc = "returned"
    /\ ~res.nil
    /\ answers["IPv4"] = {}
    /\ answers' = [answers EXCEPT !["IPv4"] = {HasIPv4(res)}]
    /\ UNCHANGED <<payload, pc, res, err, offset, reads, got, arg, prev, writes>>

\* payload[i] = v, by the caller, after the decoder returned
Mutate ==
    /\ pc = "returned"
    /\ writes < MaxWrites
    /\ \E i \in 0..(Len(payload) - 1), v \in WriteValues :
          /\ At(payload, i) # v
          /\ payload' = [payload EXCEPT ![i + 1] = v]
    /\ writes' = writes + 1
    /\ UNCHANGED <<pc, res, err, offset, reads, got, arg, prev, answers>>

\* payload = payload[:n] with n < len(payload), by the caller, before it decodes again
Truncate ==
    /\ pc = "returned"
    /\ \E n \in 0..(Len(payload) - 1) : payload' = SubSeq(payload, 1, n)
    /\ prev' = IF res.nil THEN "failed" ELSE "ok"
    /\ pc' = "idle"
    /\ res' = NilFields
    /\ err' = NoErr
    /\ offset' = 0
    /\ reads' = {}
    /\ got' = {}
    /\ arg' = <<>>
    /\ UNCHANGED <<answers, writes>>

\* the presence accessor of sub-field fld, where the result type has one
Accessor(fld) ==
    \/ fld = "TEID" /\ CallHasTEID
    \/ fld = "IPv4" /\ CallHasIPv4

\* decode, then query the result
Next == Call \/ CallHasTEID \/ CallHasIPv4

Spec == Init /\ [][Next]_vars

\* decode, re-slice the buffer shorter, decode again
NextTrunc == Call \/ Truncate

SpecTrunc == Init /\ [][NextTrunc]_vars

\* decode, then overwrite bytes of the buffer
NextMem == Call \/ Mutate

SpecMem == InitMem /\ [][NextMem]_vars

----------------------------------------------------------------------------
\* The layout the decoder is specified to follow: for each sub-field, in the
\* canonical order, its width and the flag bits (1 = least significant)
\* that select it.

Order == <<"TEID", "IPv4", "IPv6", "Port", "C-TAG", "S-TAG">>

Width(fld) ==
    CASE fld = "TEID" -> 4
      [] fld = "IPv4" -> 4
      [] fld = "IPv6" -> 16
      [] fld = "Port" -> 2
      [] fld = "C-TAG" -> 3
      [] fld = "S-TAG" -> 3

Triggers(fld) ==
    CASE fld = "TEID" -> {1, 2}
      [] fld = "IPv4" -> {1, 3, 5}
      [] fld = "IPv6" -> {2, 4, 6}
      [] fld = "Port" -> {3, 4}
      [] fld = "C-TAG" -> {7}
      [] fld = "S-TAG" -> {8}

\* bit b of x is set
BitSet(x, b) == (x \div 2^(b - 1)) % 2 = 1

Selected(flag, fld) == \E b \in Triggers(fld) : BitSet(flag, b)

RECURSIVE WidthsBefore(_, _)
\* total width of the selected sub-fields among the first k of Order
WidthsBefore(flag, k) ==
    IF k = 0 THEN 0
    ELSE WidthsBefore(flag, k - 1)
         + (IF Selected(flag, Order[k]) THEN Width(Order[k]) ELSE 0)

\* position of fld in Order
Pos(fld) == CHOOSE k \in 1..6 : Order[k] = fld

\* the offset at which sub-field fld starts
StartOf(flag, fld) == 2 + WidthsBefore(flag, Pos(fld) - 1)

RECURSIVE SumWidths(_)
SumWidths(S) ==
    IF S = {} THEN 0
    ELSE LET x == CHOOSE y \in S : TRUE IN Width(x) + SumWidths(S \ {x})

\* the length a payload needs: each distinct selected sub-field counted once
Required(flag) == 2 + SumWidths({fld \in Fields : Selected(flag, fld)})

\* the selected sub-fields that do not fit in a payload of n bytes
Missing(flag, n) ==
    {fld \in Fields : Selected(flag, fld) /\ n < StartOf(flag, fld) + Width(fld)}

\* the first of them in the canonical order
FirstMissing(flag, n) ==
    Order[CHOOSE k \in 1..6 :
            /\ Order[k] \in Missing(flag, n)
            /\ \A j \in 1..(k - 1) : Order[j] \notin Missing(flag, n)]

\* big-endian values of the bytes of p from Go index o
BE16(p, o) == p[o + 1] * 256 + p[o + 2]

BE24(p, o) == [hi |-> p[o + 1], lo |-> BE16(p, o + 1)]

BE32(p, o) == [hi |-> BE16(p, o), lo |-> BE16(p, o + 2)]

\* the words ws occur in msg, one after the other
ContainsWords(msg, ws) ==
    \E i \in 1..(Len(msg) - Len(ws) + 1) : SubSeq(msg, i, i + Len(ws) - 1) = ws

\* the sub-fields an error message names
NamedFields(e) == {e.msg[i] : i \in 1..Len(e.msg)} \cap Fields

\* e is the truncated-field error for sub-field fld at offset off
IsTruncatedField(e, fld, off) ==
    /\ ~e.nil
    /\ ContainsWords(e.msg, <<"insufficient", "bytes", "for", fld>>)
    /\ NamedFields(e) = {fld}
    /\ e.at = off

\* the flag octet of the payload that was decoded
Flag == arg[1]

\* what a result holds, given the contents of the caller's buffer
Values(buf, f) ==
    [Description |-> f.OuterHeaderCreationDescription,
     TEID |-> f.TEID,
     IPv4Address |-> IPBytes(buf, f.IPv4Address),
     IPv6Address |-> IPBytes(buf, f.IPv6Address),
     PortNumber |-> f.PortNumber,
     CTag |-> f.CTag,
     STag |-> f.STag]

----------------------------------------------------------------------------
\* Claims

\* C1: after a successful decode, whatever the caller writes into its
\* payload buffer, the result still holds the addresses and scalars it held
\* when the decoder returned.
C1_MemoryIndependence ==
    (pc = "returned" /\ ~res.nil) => Values(payload, res) = Values(arg, res)

\* C2: on success Description is the big-endian value of payload[0..2) and
\* every selected sub-field is the big-endian value (or the verbatim bytes) of
\* the payload at 2 + the widths of the selected sub-fields before it, in the
\* order TEID, IPv4, IPv6, Port, C-TAG, S-TAG.
C2_LayoutCorrect ==
    (pc = "returned" /\ ~res.nil) =>
        /\ res.OuterHeaderCreationDescription = BE16(arg, 0)
        /\ Selected(Flag, "TEID") => res.TEID = BE32(arg, StartOf(Flag, "TEID"))
        /\ Selected(Flag, "IPv4") =>
              IPBytes(arg, res.IPv4Address)
                = SubSeq(arg, StartOf(Flag, "IPv4") + 1, StartOf(Flag, "IPv4") + 4)
        /\ Selected(Flag, "IPv6") =>
              IPBytes(arg, res.IPv6Address)
                = SubSeq(arg, StartOf(Flag, "IPv6") + 1, StartOf(Flag, "IPv6") + 16)
        /\ Selected(Flag, "Port") => res.PortNumber = BE16(arg, StartOf(Flag, "Port"))
        /\ Selected(Flag, "C-TAG") => res.CTag = BE24(arg, StartOf(Flag, "C-TAG"))
        /\ Selected(Flag, "S-TAG") => res.STag = BE24(arg, StartOf(Flag, "S-TAG"))

\* a payload selecting all six sub-fields was decoded
C2_Witness ==
    /\ pc = "returned"
    /\ ~res.nil
    /\ \A fld \in Fields : Selected(Flag, fld)
    /\ got = Fields

\* C3: for a payload of at least 2 bytes in which some selected sub-field
\* does not fit, the decoder fails with the error that names the first such
\* sub-field, and no other, and reports the offset at which it would start.
C3_TruncatedField ==
    (pc = "returned" /\ Len(arg) >= 2 /\ Missing(Flag, Len(arg)) # {}) =>
        /\ res.nil
        /\ IsTruncatedField(err, FirstMissing(Flag, Len(arg)),
                            StartOf(Flag, FirstMissing(Flag, Len(arg))))

\* IPv4 was decoded and Port did not fit, with C-TAG and S-TAG selected after it
C3_Witness ==
    /\ pc = "returned"
    /\ Len(arg) >= 2
    /\ "IPv4" \in got
    /\ Missing(Flag, Len(arg)) = {"Port", "C-TAG", "S-TAG"}
    /\ IsTruncatedField(err, "Port", 6)

\* C4, as stated: every proper prefix of a payload that decoded successfully,
\* the two flag bytes kept, fails with the truncated-field error naming the
\* first sub-field that no longer fits.
C4_EveryPrefixTruncatedField ==
    (pc = "returned" /\ prev = "ok" /\ Len(arg) >= 2) =>
        /\ Missing(Flag, Len(arg)) # {}
        /\ res.nil
        /\ IsTruncatedField(err, FirstMissing(Flag, Len(arg)),
                            StartOf(Flag, FirstMissing(Flag, Len(arg))))

\* C4, amended: a proper prefix of a payload that decoded successfully fails
\* with the truncated-field error naming the first sub-field that no longer
\* fits when its length is at least 2 and below the required length; it
\* still decodes when its length is at least the required length, and it
\* fails with the too-short error when its length is below 2.
C4_PrefixBelowRequired ==
    (pc = "returned" /\ prev = "ok") =>
        IF Len(arg) < 2 THEN
            res.nil /\ ~err.nil /\ ContainsWords(err.msg, <<"too", "short">>)
        ELSE IF Len(arg) < Required(Flag) THEN
            /\ res.nil
            /\ IsTruncatedField(err, FirstMissing(Flag, Len(arg)),
                                StartOf(Flag, FirstMissing(Flag, Len(arg))))
        ELSE ~res.nil /\ err.nil

\* a payload that decoded was cut inside its second sub-field and decoded again
C4_Witness ==
    /\ pc = "returned"
    /\ prev = "ok"
    /\ "TEID" \in got
    /\ IsTruncatedField(err, "IPv4", 6)

\* C5: a payload of 0 or 1 bytes gets a nil result and an error containing
\* "too short", naming no sub-field, and no payload byte is read.
C5_TruncatedHeader ==
    (pc = "returned" /\ Len(arg) < 2) =>
        /\ res.nil
        /\ ~err.nil
        /\ ContainsWords(err.msg, <<"too", "short">>)
        /\ NamedFields(err) = {}
        /\ reads = {}
        /\ got = {}

\* a 1-byte payload whose flag octet selects every sub-field was rejected
C5_Witness ==
    /\ pc = "returned"
    /\ Len(arg) = 1
    /\ arg[1] = 255
    /\ ~err.nil

\* C6: a call ends with (result, nil error) or (nil result, error), never
\* both or neither; after a failed bounds check nothing beyond the sub-fields
\* already decoded is read, and nothing decoded reaches the caller.
C6_AllOrNothing ==
    pc = "returned" =>
        /\ res.nil # err.nil
        /\ res.nil => res = NilFields
        /\ (~err.nil /\ Len(arg) >= 2) =>
              /\ reads = 0..(err.at - 1)
              /\ got = {fld \in Fields : Selected(Flag, fld) /\ StartOf(Flag, fld) < err.at}
        /\ err.nil => got = {fld \in Fields : Selected(Flag, fld)}

\* the decoder failed after it had decoded two sub-fields
C6_Witness ==
    /\ pc = "returned"
    /\ res.nil
    /\ ~err.nil
    /\ Cardinality(got) = 2
    /\ reads # {}

\* C7: HasTEID() is true iff bit 0x01 or 0x02 of the description's high byte
\* is set, HasIPv4() iff bit 0x01, 0x04 or 0x10 is, whatever the low byte;
\* both agree with the decoder's decisions to read TEID and IPv4.
C7_AccessorsMatchDecoder ==
    LET high == res.OuterHeaderCreationDescription \div 256
    IN  /\ \A b \in answers["TEID"] :
              /\ b <=> (BitSet(high, 1) \/ BitSet(high, 2))
              /\ b <=> ("TEID" \in got)
        /\ \A b \in answers["IPv4"] :
              /\ b <=> (BitSet(high, 1) \/ BitSet(high, 3) \/ BitSet(high, 5))
              /\ b <=> ("IPv4" \in got)

\* both accessors answered on a result whose low description byte has the
\* TEID and IPv4 bits set while its flag octet has neither
C7_Witness ==
    /\ answers["TEID"] = {FALSE}
    /\ answers["IPv4"] = {FALSE}
    /\ res.OuterHeaderCreationDescription % 256 = 165
    /\ got # {}

\* C8: each of the six presence predicates is exposed as an accessor
\* operation on the decode result, so that a consumer can ask the result
\* whether TEID, IPv4, IPv6, Port, C-TAG and S-TAG are present.
C8_SixAccessors ==
    (pc = "returned" /\ ~res.nil /\ \A fld \in Fields : answers[fld] = {}) =>
        \A fld \in Fields : ENABLED Accessor(fld)

\* C9: a selected C-TAG or S-TAG takes exactly 3 bytes: S-TAG starts 3 bytes
\* after C-TAG, the cursor ends 3 bytes after the last tag, both values are
\* below 2^24, and a payload with exactly 3 bytes per selected tag decodes.
C9_ThreeByteTags ==
    LET c == StartOf(Flag, "C-TAG")
        hasC == Selected(Flag, "C-TAG")
        hasS == Selected(Flag, "S-TAG")
        tags == (IF hasC THEN 3 ELSE 0) + (IF hasS THEN 3 ELSE 0)
    IN  (pc = "returned" /\ Len(arg) >= 2 /\ (hasC \/ hasS)) =>
            /\ Len(arg) = c + tags => ~res.nil
            /\ ~res.nil =>
                  /\ offset = c + tags
                  /\ reads = 0..(c + tags - 1)
                  /\ res.CTag.hi < 256
                  /\ res.STag.hi < 256
                  /\ hasC => res.CTag = [hi |-> arg[c + 1],
                                         lo |-> arg[c + 2] * 256 + arg[c + 3]]
                  /\ (hasC /\ hasS) => res.STag = [hi |-> arg[c + 4],
                                                   lo |-> arg[c + 5] * 256 + arg[c + 6]]
                  /\ (~hasC /\ hasS) => res.STag = [hi |-> arg[c + 1],
                                                    lo |-> arg[c + 2] * 256 + arg[c + 3]]

\* GTP-U/IPv4 with both tags, in a payload that ends with the S-TAG's third byte
C9_Witness ==
    /\ pc = "returned"
    /\ Len(arg) = 16
    /\ Flag = 193
    /\ ~res.nil
    /\ got = {"TEID", "IPv4", "C-TAG", "S-TAG"}

\* C10: the decoder succeeds iff the payload has at least 2 bytes plus the
\* widths of the distinct selected sub-fields, each counted once however many
\* bits select it; further bytes are ignored; the cursor never exceeds 34.
C10_SuccessCondition ==
    pc = "returned" =>
        /\ ~res.nil <=> (Len(arg) >= 2 /\ Len(arg) >= Required(Flag))
        /\ ~res.nil => offset = Required(Flag) /\ reads = 0..(Required(Flag) - 1)
        /\ offset <= 34

\* bits 1, 3 and 5 all select IPv4: one address is read, two further bytes ignored
C10_Witness ==
    /\ pc = "returned"
    /\ Len(arg) = 14
    /\ Flag = 21
    /\ ~res.nil
    /\ offset = 12

====
